---- MODULE Spec2Model ----
(***************************************************************************)
(* Similarity search and scoring engine of X-auto-post-system:             *)
(*   clipEmbedding   (initCLIP, isCLIPReady, getImageEmbedding,            *)
(*                    cosineSimilarity)                                    *)
(*   pHashService    (hammingDistance, pHashSimilarity, hexToBinary)       *)
(*   vectorStore     (VectorStore.init/add/getAll/searchByEmbedding/...)   *)
(*   imageSimilarityService (findSimilarAccounts, scoreAndAggregate,       *)
(*                    registerImage, getStats)                             *)
(*   SimilaritySearchModal (the effect that starts a search, and the       *)
(*                    candidates, progress and error it displays)          *)
(* Every asynchronous call is a process that moves from one await to the   *)
(* next; the collaborators (model download, embedding extraction, canvas   *)
(* hashing, IndexedDB requests) complete with success or failure.          *)
(* Scores are fixed-point: a score s of the code is the integer s * SCALE. *)
(***************************************************************************)
EXTENDS Integers, Sequences, FiniteSets, TLC

\* ---------------------------------------------------------------- bounds
MaxCalls == 2          \* number of API calls issued in one behaviour
MaxTime == 1           \* Date.now() ranges over 0..MaxTime
MaxRand == 1           \* Math.random() suffix ranges over 1..MaxRand
MaxRecords == 3        \* records of the indexes the scoring is checked on
MaxTagLen == 2         \* characters of the event names the bonus is checked on
MaxHashLen == 2        \* digits of the short hashes the distance is checked on

CallIds == 1..MaxCalls
Times == 0..MaxTime
Rands == 1..MaxRand
Ids == Times \X Rands                  \* `img_${Date.now()}_${random}`

\* ------------------------------------------------------- program constants
TOP_N_SEARCH == 50
W_clip == 50           \* WEIGHTS, in hundredths
W_pHash == 30
W_metadata == 15
W_frequency == 5
HASH_BITS == 64
SCALE == 64 * 1200     \* fixed-point unit: 1.0 of the code is SCALE

\* ------------------------------------------------- values the inputs take
\* embeddings returned by the pipeline (two lengths, so that a mismatch exists)
Embeddings == {<<1, 0>>, <<1>>}
\* perceptual hashes: 16 hex digits
HashZero == [i \in 1..16 |-> 0]
HashOnes == [i \in 1..16 |-> 15]
PHashes == {HashZero}
\* eventName?: string. <<>> is the absent (undefined) event name, <<s>> the
\* event name s, a string modelled as a sequence of characters
NoEvent == <<>>
EventNames == {NoEvent}
Accounts == {[name |-> "A", handle |-> "@a"]}

\* errors the collaborators raise
ModelLoadError == "ModelLoadError"
EmbedError == "EmbedError"
HashError == "Failed to load image"
OpenError == "OpenError"
RequestError == "RequestError"
ConstraintError == "ConstraintError"
LengthError == "Vectors must have the same length"
NoError == "none"

\* ------------------------------------------------------------ pHashService
RECURSIVE Bits(_, _)
\* toString(2).padStart(n, '0') of a digit
Bits(d, n) == IF n = 0 THEN <<>> ELSE Append(Bits(d \div 2, n - 1), d % 2)

RECURSIVE hexToBinary(_)
hexToBinary(hex) ==
    IF hex = <<>> THEN <<>> ELSE Bits(Head(hex), 4) \o hexToBinary(Tail(hex))

BitAtPaddedWithOne(bin, i) == IF i <= Len(bin) THEN bin[i] ELSE 1

\* bin[i] || '0'
BitAt(bin, i) == IF i <= Len(bin) THEN bin[i] ELSE 0

Max2(a, b) == IF a >= b THEN a ELSE b

hammingDistanceOverFirst(hash1, hash2) ==
    LET bin1 == hexToBinary(hash1)
        bin2 == hexToBinary(hash2)
    IN Cardinality({i \in 1..Len(bin1) : BitAt(bin1, i) # BitAt(bin2, i)})

hammingDistance(hash1, hash2) ==
    LET bin1 == hexToBinary(hash1)
        bin2 == hexToBinary(hash2)
        len == Max2(Len(bin1), Len(bin2))
    IN Cardinality({i \in 1..len : BitAt(bin1, i) # BitAt(bin2, i)})

pHashSimilarity(hash1, hash2) ==
    SCALE - hammingDistance(hash1, hash2) * (SCALE \div HASH_BITS)

\* ----------------------------------------------------------- clipEmbedding
RECURSIVE DotUpTo(_, _, _)
DotUpTo(a, b, n) == IF n = 0 THEN 0 ELSE DotUpTo(a, b, n - 1) + a[n] * b[n]

ISqrt(n) == CHOOSE k \in 0..n : k * k <= n /\ (k + 1) * (k + 1) > n

cosineSimilarityZeroOnMismatch(a, b) ==
    IF Len(a) # Len(b) THEN [threw |-> FALSE, value |-> 0]
    ELSE LET den == ISqrt(DotUpTo(a, a, Len(a))) * ISqrt(DotUpTo(b, b, Len(b)))
         IN [threw |-> FALSE,
             value |-> IF den = 0 THEN 0 ELSE (DotUpTo(a, b, Len(a)) * SCALE) \div den]

\* [threw |-> TRUE] is `throw new Error('Vectors must have the same length')`
cosineSimilarity(a, b) ==
    IF Len(a) # Len(b) THEN [threw |-> TRUE, value |-> 0]
    ELSE LET den == ISqrt(DotUpTo(a, a, Len(a))) * ISqrt(DotUpTo(b, b, Len(b)))
         IN [threw |-> FALSE,
             value |-> IF den = 0 THEN 0 ELSE (DotUpTo(a, b, Len(a)) * SCALE) \div den]

\* ------------------------------------------------------------- vectorStore
KeyLess(a, b) == a[1] < b[1] \/ (a[1] = b[1] /\ a[2] < b[2])

RECURSIVE InKeyOrder(_)
\* IDBObjectStore.getAll(): the records in ascending key order
InKeyOrder(S) ==
    IF S = {} THEN <<>>
    ELSE LET m == CHOOSE r \in S : \A q \in S : q.id = r.id \/ KeyLess(r.id, q.id)
         IN <<m>> \o InKeyOrder(S \ {m})

KeyExists(S, id) == \E r \in S : r.id = id

objectStore_addNoKeyCheck(S, rec) == [ok |-> TRUE, records |-> S \cup {rec}]

\* IDBObjectStore.add on a store with keyPath 'id': a ConstraintError when
\* the key is already present, the record stored otherwise
objectStore_add(S, rec) ==
    IF KeyExists(S, rec.id) THEN [ok |-> FALSE, records |-> S]
    ELSE [ok |-> TRUE, records |-> S \cup {rec}]

RECURSIVE MapScore(_, _)
\* all.map(record => ({...record, clipScore: cosineSimilarity(query, record.embedding)}))
MapScore(all, q) ==
    IF all = <<>> THEN <<>>
    ELSE <<[rec |-> Head(all),
            clipScore |-> cosineSimilarity(q, Head(all).embedding).value]>>
         \o MapScore(Tail(all), q)

AnyThrew(all, q) ==
    \E i \in 1..Len(all) : cosineSimilarity(q, all[i].embedding).threw

RECURSIVE InsertDescTiesFirst(_, _, _)
InsertDescTiesFirst(order, x, keys) ==
    IF order = <<>> THEN <<x>>
    ELSE IF keys[Head(order)] > keys[x]
         THEN <<Head(order)>> \o InsertDescTiesFirst(Tail(order), x, keys)
         ELSE <<x>> \o order

RECURSIVE InsertDesc(_, _, _)
\* stable insertion of index x behind every index whose key is >= its own
InsertDesc(order, x, keys) ==
    IF order = <<>> THEN <<x>>
    ELSE IF keys[Head(order)] >= keys[x]
         THEN <<Head(order)>> \o InsertDesc(Tail(order), x, keys)
         ELSE <<x>> \o order

RECURSIVE SortOrder(_, _)
\* the order in which the stable descending sort (a, b) => b.key - a.key
\* leaves the first n positions of a sequence with the given keys
SortOrder(keys, n) ==
    IF n = 0 THEN <<>> ELSE InsertDesc(SortOrder(keys, n - 1), n, keys)

SortDescKeepsOrder(s, keys) == s

SortDesc(s, keys) ==
    LET order == SortOrder(keys, Len(s)) IN [i \in 1..Len(s) |-> s[order[i]]]

Slice(s, n) == SubSeq(s, 1, IF Len(s) < n THEN Len(s) ELSE n)

\* VectorStore.searchByEmbedding on the records getAll() returned
searchByEmbedding(all, q, topN) ==
    IF Len(all) = 0 THEN [threw |-> FALSE, results |-> <<>>]
    ELSE IF AnyThrew(all, q) THEN [threw |-> TRUE, results |-> <<>>]
    ELSE [threw |-> FALSE,
          results |-> LET scored == MapScore(all, q)
               IN Slice(SortDesc(scored, [i \in 1..Len(scored) |-> scored[i].clipScore]), topN)]

DistinctHandlesRepeated(hs) == hs

RECURSIVE DistinctHandles(_)
\* the keys of a Map filled in the order of the sequence: first appearance
DistinctHandles(hs) ==
    IF hs = <<>> THEN <<>>
    ELSE LET front == DistinctHandles(SubSeq(hs, 1, Len(hs) - 1))
             last == hs[Len(hs)]
         IN IF \E i \in 1..Len(front) : front[i] = last THEN front
            ELSE Append(front, last)

\* VectorStore.getUniqueAccounts on the records getAll() returned
getUniqueAccounts(all) ==
    LET hs == DistinctHandles([i \in 1..Len(all) |-> all[i].accountHandle])
        first(h) == CHOOSE i \in 1..Len(all) :
                        /\ all[i].accountHandle = h
                        /\ \A j \in 1..(i - 1) : all[j].accountHandle # h
        entries == [k \in 1..Len(hs) |->
                      [name |-> all[first(hs[k])].accountName,
                       handle |-> hs[k],
                       count |-> Cardinality({i \in 1..Len(all) : all[i].accountHandle = hs[k]})]]
    IN SortDesc(entries, [k \in 1..Len(entries) |-> entries[k].count])

\* -------------------------------------------------- imageSimilarityService
\* String.prototype.includes
Includes(s, t) == \E i \in 0..(Len(s) - Len(t)) : SubSeq(s, i + 1, i + Len(t)) = t

\* the truthiness of an optional string: undefined and '' are falsy
Truthy(ev) == IF ev = NoEvent THEN FALSE ELSE ev[1] # <<>>

metadataBonusOfExactOnly(recordEvent, eventName) ==
    IF Truthy(eventName) /\ Truthy(recordEvent) /\ recordEvent = eventName
    THEN SCALE \div 5 ELSE 0

\* if (eventName && candidate.eventName) { 0.2 when equal, 0.1 when one
\* includes the other }, 0 otherwise
metadataBonusOf(recordEvent, eventName) ==
    IF Truthy(eventName) /\ Truthy(recordEvent)
    THEN IF recordEvent = eventName THEN SCALE \div 5
         ELSE IF Includes(recordEvent[1], eventName[1]) \/ Includes(eventName[1], recordEvent[1])
              THEN SCALE \div 10
              ELSE 0
    ELSE 0

\* clip * WEIGHTS.clip + pHash * WEIGHTS.pHash + metadata * WEIGHTS.metadata,
\* in hundredths of the fixed-point unit
ImageScore(img) ==
    img.clipScore * W_clip + img.pHashScore * W_pHash + img.metadataBonus * W_metadata

BestImageFirst(images) == images[1]

RECURSIVE BestImage(_)
\* data.images.reduce((best, img) => score > bestScore ? img : best)
BestImage(images) ==
    IF Len(images) = 1 THEN images[1]
    ELSE LET best == BestImage(SubSeq(images, 1, Len(images) - 1))
             img == images[Len(images)]
         IN IF ImageScore(img) > ImageScore(best) THEN img ELSE best

RECURSIVE SelectSeq2(_, _)
\* the entries of s whose candidate belongs to handle h, in order
SelectSeq2(s, h) ==
    IF s = <<>> THEN <<>>
    ELSE IF Head(s).rec.accountHandle = h THEN <<Head(s)>> \o SelectSeq2(Tail(s), h)
    ELSE SelectSeq2(Tail(s), h)

MaxOf(S) == CHOOSE m \in S : \A x \in S : x <= m

matchedImagesBestOnly(images) ==
    LET best == BestImage(images) IN <<[id |-> best.id, score |-> best.clipScore]>>

\* data.images.map(img => ({ id: img.id, score: img.clipScore }))
matchedImagesOf(images) ==
    [i \in 1..Len(images) |-> [id |-> images[i].id, score |-> images[i].clipScore]]

imageCountOfOne(count) == 1

\* accountCountMap.get(handle) || 1, where count is 0 for a handle the map
\* does not hold
imageCountOf(count) == IF count = 0 THEN 1 ELSE count

frequencyBonusUndivided(imageCount, maxCount) == imageCount * (SCALE \div 10)

\* (imageCount / maxCount) * 0.1
frequencyBonusOf(imageCount, maxCount) == (imageCount * (SCALE \div 10)) \div maxCount

\* scoreAndAggregate, given what getUniqueAccounts() returned
scoreAndAggregate(candidates, queryHash, eventName, uniqueAccounts) ==
    LET handles == DistinctHandles([i \in 1..Len(candidates) |-> candidates[i].rec.accountHandle])
        countOf(h) == IF \E k \in 1..Len(uniqueAccounts) : uniqueAccounts[k].handle = h
                      THEN (CHOOSE a \in {uniqueAccounts[k] : k \in 1..Len(uniqueAccounts)} :
                                a.handle = h).count
                      ELSE 0
        maxCount == MaxOf({uniqueAccounts[k].count : k \in 1..Len(uniqueAccounts)} \cup {1})
        imagesOf(h) == LET mine == SelectSeq2(candidates, h)
                       IN [i \in 1..Len(mine) |->
                             [id |-> mine[i].rec.id,
                              clipScore |-> mine[i].clipScore,
                              pHashScore |-> pHashSimilarity(queryHash, mine[i].rec.pHash),
                              metadataBonus |-> metadataBonusOf(mine[i].rec.eventName, eventName)]]
        candidateOf(h) ==
            LET images == imagesOf(h)
                bestImage == BestImage(images)
                imageCount == imageCountOf(countOf(h))
                frequencyBonus == frequencyBonusOf(imageCount, maxCount)
            IN [accountName |-> SelectSeq2(candidates, h)[1].rec.accountName,
                accountHandle |-> h,
                scores |-> [clip |-> bestImage.clipScore,
                            pHash |-> bestImage.pHashScore,
                            metadata |-> bestImage.metadataBonus,
                            frequency |-> frequencyBonus],
                totalScore |-> ImageScore(bestImage) + frequencyBonus * W_frequency,
                matchedImages |-> matchedImagesOf(images),
                imageCount |-> imageCount]
        results == [k \in 1..Len(handles) |-> candidateOf(handles[k])]
    IN SortDesc(results, [k \in 1..Len(results) |-> results[k].totalScore])

\* progress reports of findSimilarAccounts (the message text is left out)
Progress(status, progress) == [status |-> status, progress |-> progress]
ReportsAtStart == <<Progress("initializing", 0)>>
ReportsModelReady == <<Progress("initializing", 20), Progress("extracting_embedding", 30)>>
ReportsEmbedded == <<Progress("extracting_embedding", 50)>>
ReportsHashedEarly == <<Progress("searching", 45)>>
ReportsHashed == <<Progress("searching", 55)>>
ReportsNoCandidates == <<Progress("done", 100)>>
ReportsCandidatesAndDone ==
    <<Progress("searching", 70), Progress("scoring", 75), Progress("done", 80)>>
ReportsCandidates == <<Progress("searching", 70), Progress("scoring", 75)>>
ReportsScored == <<Progress("done", 100)>>

WindowIsEmptyNever(candidates) == FALSE
\* if (candidates.length === 0)
WindowIsEmpty(candidates) == Len(candidates) = 0

SearchCatchWrapped(e) == "Search failed"
\* catch (error) { console.error(...); throw error; }
SearchCatch(e) == e

\* ------------------------------------------------------------------- state
VARIABLES
    embeddingPipeline,   \* clipEmbedding: TRUE when the pipeline is not null
    isLoading,           \* clipEmbedding: isLoading
    loadingPromise,      \* clipEmbedding: 0 is null, k is the promise of load k
    clipLoads,           \* state of every model load started so far
    db,                  \* VectorStore: TRUE when this.db is not null
    initPromise,         \* VectorStore: 0 is null, k is the promise of open k
    opens,               \* state of every indexedDB.open issued so far
    records,             \* content of the object store 'images'
    now,                 \* Date.now()
    calls,               \* the API calls: position, locals, progress, outcome
    modal                \* SimilaritySearchModal: its React state and its searches

clipVars == <<embeddingPipeline, isLoading, loadingPromise, clipLoads>>
dbVars == <<db, initPromise, opens>>
vars == <<embeddingPipeline, isLoading, loadingPromise, clipLoads,
          db, initPromise, opens, records, now, calls, modal>>

IdleCall ==
    [op |-> "idle", pc |-> "idle", awaiting |-> 0, cont |-> "none",
     account |-> [name |-> "", handle |-> ""], eventName |-> NoEvent, target |-> <<0, 0>>,
     embedding |-> <<>>, queryHash |-> <<>>, candidates |-> <<>>, fullRecord |-> <<>>,
     reports |-> <<>>, outcome |-> "pending", error |-> NoError, result |-> <<>>,
     raised |-> NoError, steps |-> <<>>, arrivedDuring |-> 0, collided |-> FALSE,
     sawEmpty |-> FALSE, mismatch |-> FALSE, clipBranch |-> "none",
     topN |-> 0, totalImages |-> 0, metFailedOpen |-> FALSE]

\* a record of the object store
ImageRecord(id, embedding, pHash, account, eventName, createdAt) ==
    [id |-> id, embedding |-> embedding, pHash |-> pHash,
     accountName |-> account.name, accountHandle |-> account.handle,
     eventName |-> eventName, createdAt |-> createdAt]

\* SimilaritySearchModal before its effect has run: the initial values of
\* useState, and no search started; error is <<>> for null
ModalInit ==
    [searches |-> <<>>, candidates |-> <<>>, progress |-> Progress("initializing", 0),
     error |-> <<>>]

\* the database outlives the page: it starts empty or with an earlier record
InitStores ==
    {{}} \cup {{ImageRecord(<<0, 1>>, e, HashZero, a, NoEvent, 0)} :
                  e \in Embeddings, a \in Accounts}

Init ==
    /\ embeddingPipeline = FALSE
    /\ isLoading = FALSE
    /\ loadingPromise = 0
    /\ clipLoads = <<>>
    /\ db = FALSE
    /\ initPromise = 0
    /\ opens = <<>>
    /\ records \in InitStores
    /\ now = 0
    /\ calls = [c \in CallIds |-> IdleCall]
    /\ modal = ModalInit

\* --------------------------------------------------------- shared fragments
\* A promise that settles runs the continuations of all its awaiters before
\* any other callback of the event loop: the action of a collaborator that
\* completes includes the resumption of every call that awaited it.

\* the call returns or throws: its locals are gone, what it reported and
\* what it delivered remain
Settled(base, outcome, error, result) ==
    [base EXCEPT !.pc = "done", !.outcome = outcome, !.error = error, !.result = result,
                 !.awaiting = 0, !.cont = "none", !.target = <<0, 0>>, !.embedding = <<>>, !.queryHash = <<>>,
                 !.candidates = <<>>, !.fullRecord = <<>>, !.totalImages = 0]

Resolved(base, result) == Settled(base, "resolved", NoError, result)

\* the error e leaves the call: through the catch of findSimilarAccounts,
\* directly out of every other function
Thrown(base, e) ==
    Settled([base EXCEPT !.raised = e], "rejected",
            IF base.op = "search" THEN SearchCatch(e) ELSE e, <<>>)

initCLIP_branchSharesSettled ==
    IF embeddingPipeline THEN "return"
    ELSE IF loadingPromise # 0 THEN "share"
    ELSE "load"

initCLIP_branchNoShare ==
    IF embeddingPipeline THEN "return" ELSE "load"

initCLIP_branchNoReturn ==
    IF isLoading /\ loadingPromise # 0 THEN "share" ELSE "load"

\* initCLIP: which of its three exits a call takes
initCLIP_branch ==
    IF embeddingPipeline THEN "return"
    ELSE IF isLoading /\ loadingPromise # 0 THEN "share"
    ELSE "load"

PendingLoads == {k \in 1..Len(clipLoads) : clipLoads[k] = "pending"}

\* getImageEmbedding up to its request to the pipeline. findSimilarAccounts
\* and registerImage enter it after initCLIP has resolved, so its own
\* `if (!embeddingPipeline) await initCLIP()` finds the pipeline set; the
\* check that follows it throws when the pipeline is null.
GetImageEmbedding(base, pipelineSet) ==
    IF pipelineSet
    THEN [base EXCEPT !.pc = "embed_wait", !.awaiting = 0, !.steps = Append(@, "embed")]
    ELSE Thrown(base, "CLIP pipeline not initialized")

\* the caller of initCLIP once the promise it awaits has settled
AfterInitCLIP(base, status, pipelineSet) ==
    IF status = "rejected" THEN Thrown(base, ModelLoadError)
    ELSE CASE base.op = "initCLIP" -> Resolved(base, <<>>)
           [] base.op = "search" ->
                GetImageEmbedding([base EXCEPT !.reports = @ \o ReportsModelReady], pipelineSet)
           [] base.op = "register" -> GetImageEmbedding(base, pipelineSet)

\* a call of initCLIP by c, followed by the await of what it returns
CallInitCLIP(c, base) ==
    LET inFlight == IF PendingLoads = {} THEN 0 ELSE MaxOf(PendingLoads)
        called == [base EXCEPT !.arrivedDuring = inFlight, !.clipBranch = initCLIP_branch,
                               !.steps = Append(@, "initCLIP")]
        waiting == [called EXCEPT !.pc = "clip_wait"]
    IN CASE initCLIP_branch = "return" ->
              /\ calls' = [calls EXCEPT ![c] = AfterInitCLIP(called, "resolved", embeddingPipeline)]
              /\ UNCHANGED clipVars
         [] initCLIP_branch = "share" ->
              /\ calls' = [calls EXCEPT ![c] =
                             IF clipLoads[loadingPromise] = "pending"
                             THEN [waiting EXCEPT !.awaiting = loadingPromise]
                             ELSE AfterInitCLIP([called EXCEPT !.awaiting = loadingPromise],
                                                clipLoads[loadingPromise], embeddingPipeline)]
              /\ UNCHANGED clipVars
         [] initCLIP_branch = "load" ->
              /\ isLoading' = TRUE
              /\ clipLoads' = Append(clipLoads, "pending")
              /\ loadingPromise' = Len(clipLoads) + 1
              /\ calls' = [calls EXCEPT ![c] = [waiting EXCEPT !.awaiting = Len(clipLoads) + 1]]
              /\ UNCHANGED embeddingPipeline

init_branchOpensAgain ==
    IF db THEN "return"
    ELSE IF initPromise # 0 /\ opens[initPromise] = "pending" THEN "share"
    ELSE "open"

init_branchNoShare ==
    IF db THEN "return" ELSE "open"

\* VectorStore.init: which of its three exits a call takes
init_branch ==
    IF db THEN "return"
    ELSE IF initPromise # 0 THEN "share"
    ELSE "open"

\* the request a store method issues once init() has resolved; add() builds
\* its record, id and createdAt from the clock, before the request
IssueRequest(base, next, t, r) ==
    [base EXCEPT !.pc = next,
                 !.awaiting = 0,
                 !.steps = Append(@, next),
                 !.fullRecord = IF next = "add_wait"
                                THEN <<ImageRecord(<<t, r>>, base.embedding, base.queryHash,
                                                   base.account, base.eventName, t)>>
                                ELSE @]

AfterInitWaitsOnFailure(base, status, dbSet, t, r) ==
    IF status = "rejected" THEN [base EXCEPT !.pc = "db_wait"]
    ELSE IF ~dbSet THEN Thrown(base, "Database not initialized")
    ELSE IssueRequest(base, base.cont, t, r)

\* a store method resumes after `await this.init()`
AfterInit(base, status, dbSet, t, r) ==
    IF status = "rejected" THEN Thrown(base, OpenError)
    ELSE IF ~dbSet THEN Thrown(base, "Database not initialized")
    ELSE IssueRequest(base, base.cont, t, r)

\* a store method called by c: `await this.init()` and then the request;
\* t and r are what Date.now() and Math.random() give if add() reads them now
EnterStore(c, base, next, t, r) ==
    LET entered == [base EXCEPT !.cont = next] IN
    CASE init_branch = "return" ->
           /\ calls' = [calls EXCEPT ![c] = AfterInit(entered, "resolved", db, t, r)]
           /\ now' = IF next = "add_wait" THEN t ELSE now
           /\ UNCHANGED dbVars
      [] init_branch = "share" ->
           /\ calls' = [calls EXCEPT ![c] =
                          IF opens[initPromise] = "pending"
                          THEN [entered EXCEPT !.pc = "db_wait", !.awaiting = initPromise]
                          ELSE AfterInit([entered EXCEPT !.awaiting = initPromise,
                                                         !.metFailedOpen = (opens[initPromise] = "rejected")],
                                         opens[initPromise], db, t, r)]
           /\ now' = IF next = "add_wait" /\ opens[initPromise] = "resolved" /\ db
                     THEN t ELSE now
           /\ UNCHANGED dbVars
      [] init_branch = "open" ->
           /\ opens' = Append(opens, "pending")
           /\ initPromise' = Len(opens) + 1
           /\ calls' = [calls EXCEPT ![c] = [entered EXCEPT !.pc = "db_wait",
                                                           !.awaiting = Len(opens) + 1]]
           /\ UNCHANGED <<db, now>>

\* What the searches of the modal deliver in a step from before to after,
\* the search started first delivering first: setProgress for every report
\* (the last one stays), setCandidates for the list the search returns,
\* setError for the message of the error it throws
RECURSIVE Delivered(_, _, _, _)
Delivered(shown, started, before, after) ==
    IF started = <<>> THEN shown
    ELSE LET c == Head(started)
             reported == Len(after[c].reports) > Len(before[c].reports)
             settled == before[c].pc # "done" /\ after[c].pc = "done"
             progressed == IF reported
                           THEN [shown EXCEPT !.progress = after[c].reports[Len(after[c].reports)]]
                           ELSE shown
             completed == IF ~settled THEN progressed
                          ELSE IF after[c].outcome = "resolved"
                          THEN [progressed EXCEPT !.candidates = after[c].result]
                          ELSE [progressed EXCEPT !.error = <<after[c].error>>]
         IN Delivered(completed, Tail(started), before, after)

\* the state of the modal after a step of the calls
ModalRenders ==
    modal' = IF modal.searches = <<>> THEN modal
             ELSE Delivered(modal, modal.searches, calls, calls')

CanStart(c) ==
    /\ calls[c].op = "idle"
    /\ \A d \in CallIds : d < c => calls[d].op # "idle"

LaterTimes == now..MaxTime

\* ------------------------------------------------------------ calls arrive
\* findSimilarAccounts(imageBase64, eventName, onProgress) up to its first await
findSimilarAccounts(c) ==
    /\ CanStart(c)
    /\ \E ev \in EventNames :
         LET base == [IdleCall EXCEPT !.op = "search", !.eventName = ev,
                                      !.topN = TOP_N_SEARCH,
                                      !.reports = ReportsAtStart]
         IN IF ~embeddingPipeline
            THEN CallInitCLIP(c, base)
            ELSE /\ calls' = [calls EXCEPT ![c] = AfterInitCLIP(base, "resolved", embeddingPipeline)]
                 /\ UNCHANGED clipVars
    /\ UNCHANGED <<dbVars, records, now>>

\* a caller other than the modal calls findSimilarAccounts
StartSearch(c) ==
    /\ findSimilarAccounts(c)
    /\ ModalRenders

\* the effect of SimilaritySearchModal runs, when it mounts and whenever
\* imageBase64 or eventName has changed: it calls findSimilarAccounts with
\* setProgress; nothing stops or detaches the search of an earlier run
ModalEffect(c) ==
    /\ findSimilarAccounts(c)
    /\ modal' = [Delivered(modal, Append(modal.searches, c), calls, calls')
                   EXCEPT !.searches = Append(modal.searches, c)]

\* registerImage(imageBase64, accountName, accountHandle, eventName)
StartRegister(c) ==
    /\ CanStart(c)
    /\ \E a \in Accounts, ev \in EventNames :
         LET base == [IdleCall EXCEPT !.op = "register", !.account = a, !.eventName = ev]
         IN IF ~embeddingPipeline
            THEN CallInitCLIP(c, base)
            ELSE /\ calls' = [calls EXCEPT ![c] = AfterInitCLIP(base, "resolved", embeddingPipeline)]
                 /\ UNCHANGED clipVars
    /\ UNCHANGED <<dbVars, records, now>>
    /\ ModalRenders

\* initCLIP() called on its own
StartInitCLIP(c) ==
    /\ CanStart(c)
    /\ CallInitCLIP(c, [IdleCall EXCEPT !.op = "initCLIP"])
    /\ UNCHANGED <<dbVars, records, now>>
    /\ ModalRenders

\* vectorStore.delete(id)
StartDelete(c) ==
    /\ CanStart(c)
    /\ \E id \in Ids :
         EnterStore(c, [IdleCall EXCEPT !.op = "delete", !.target = id], "delete_wait", now, 1)
    /\ UNCHANGED <<clipVars, records>>
    /\ ModalRenders

\* vectorStore.clear()
StartClear(c) ==
    /\ CanStart(c)
    /\ EnterStore(c, [IdleCall EXCEPT !.op = "clear"], "clear_wait", now, 1)
    /\ UNCHANGED <<clipVars, records>>
    /\ ModalRenders

\* getStats(): the first of its awaits is vectorStore.count()
StartStats(c) ==
    /\ CanStart(c)
    /\ EnterStore(c, [IdleCall EXCEPT !.op = "stats"], "count_wait", now, 1)
    /\ UNCHANGED <<clipVars, records>>
    /\ ModalRenders

\* ------------------------------------------------------ the model pipeline
AwaitsLoad(c, k) == calls[c].pc = "clip_wait" /\ calls[c].awaiting = k

\* pipeline(...) resolved: embeddingPipeline is set, finally clears isLoading
ClipLoadSucceeds ==
    /\ \E k \in PendingLoads :
         /\ clipLoads' = [clipLoads EXCEPT ![k] = "resolved"]
         /\ calls' = [c \in CallIds |->
                        IF AwaitsLoad(c, k) THEN AfterInitCLIP(calls[c], "resolved", TRUE)
                        ELSE calls[c]]
    /\ embeddingPipeline' = TRUE
    /\ isLoading' = FALSE
    /\ UNCHANGED <<loadingPromise, dbVars, records, now>>
    /\ ModalRenders

ClipLoadFailsStaysLoading ==
    /\ \E k \in PendingLoads :
         /\ clipLoads' = [clipLoads EXCEPT ![k] = "rejected"]
         /\ calls' = [c \in CallIds |->
                        IF AwaitsLoad(c, k)
                        THEN AfterInitCLIP(calls[c], "rejected", embeddingPipeline)
                        ELSE calls[c]]
    /\ UNCHANGED <<isLoading, embeddingPipeline, loadingPromise, dbVars, records, now>>
    /\ ModalRenders

\* loadTransformers() or pipeline(...) threw: rethrown, finally clears isLoading
ClipLoadFails ==
    /\ \E k \in PendingLoads :
         /\ clipLoads' = [clipLoads EXCEPT ![k] = "rejected"]
         /\ calls' = [c \in CallIds |->
                        IF AwaitsLoad(c, k)
                        THEN AfterInitCLIP(calls[c], "rejected", embeddingPipeline)
                        ELSE calls[c]]
    /\ isLoading' = FALSE
    /\ UNCHANGED <<embeddingPipeline, loadingPromise, dbVars, records, now>>
    /\ ModalRenders

\* embeddingPipeline(image, ...) returned a vector; the caller goes on to
\* computePHash
EmbedSucceeds(c) ==
    LET me == calls[c] IN
    /\ me.pc = "embed_wait"
    /\ \E e \in Embeddings :
         calls' = [calls EXCEPT ![c] =
                     [me EXCEPT !.embedding = e, !.pc = "hash_wait",
                                !.steps = Append(@, "hash"),
                                !.reports = IF me.op = "search" THEN @ \o ReportsEmbedded ELSE @]]
    /\ UNCHANGED <<clipVars, dbVars, records, now>>
    /\ ModalRenders

\* RawImage.fromURL or the pipeline threw: getImageEmbedding rethrows
EmbedFails(c) ==
    /\ calls[c].pc = "embed_wait"
    /\ calls' = [calls EXCEPT ![c] = Thrown(calls[c], EmbedError)]
    /\ UNCHANGED <<clipVars, dbVars, records, now>>
    /\ ModalRenders

registerImage_afterHashAlwaysAdds(ok) == "add"

\* what registerImage does when computePHash has settled
registerImage_afterHash(ok) == IF ok THEN "add" ELSE "throw"

\* computePHash resolved with the hash: findSimilarAccounts calls
\* searchByEmbedding, registerImage calls add
HashSucceeds(c) ==
    LET me == calls[c] IN
    /\ me.pc = "hash_wait"
    /\ \E h \in PHashes,
          t \in (IF me.op = "search" THEN {now} ELSE LaterTimes),
          r \in (IF me.op = "search" THEN {1} ELSE Rands) :
         IF me.op = "search"
         THEN EnterStore(c, [me EXCEPT !.queryHash = h, !.reports = @ \o ReportsHashed],
                         "getall_wait", t, r)
         ELSE EnterStore(c, [me EXCEPT !.queryHash = h], "add_wait", t, r)
    /\ UNCHANGED <<clipVars, records>>
    /\ ModalRenders

\* computePHash rejected (the image failed to load, no canvas context)
HashFails(c) ==
    LET me == calls[c] IN
    /\ me.pc = "hash_wait"
    /\ IF me.op = "register" /\ registerImage_afterHash(FALSE) = "add"
       THEN \E t \in LaterTimes, r \in Rands :
               EnterStore(c, [me EXCEPT !.raised = HashError], "add_wait", t, r)
       ELSE /\ calls' = [calls EXCEPT ![c] = Thrown(me, HashError)]
            /\ UNCHANGED <<dbVars, now>>
    /\ UNCHANGED <<clipVars, records>>
    /\ ModalRenders

\* --------------------------------------------------------------- IndexedDB
PendingOpens == {k \in 1..Len(opens) : opens[k] = "pending"}

AwaitsOpen(c, k) == calls[c].pc = "db_wait" /\ calls[c].awaiting = k

\* request.onsuccess of indexedDB.open: this.db is set, the awaiting store
\* methods issue their requests
OpenSucceeds ==
    /\ \E k \in PendingOpens :
         LET adders == {c \in CallIds : AwaitsOpen(c, k) /\ calls[c].cont = "add_wait"} IN
         \E t \in (IF adders = {} THEN {now} ELSE LaterTimes), rs \in [adders -> Rands] :
            /\ opens' = [opens EXCEPT ![k] = "resolved"]
            /\ calls' = [c \in CallIds |->
                           IF AwaitsOpen(c, k)
                           THEN AfterInit(calls[c], "resolved", TRUE, t,
                                          IF c \in adders THEN rs[c] ELSE 1)
                           ELSE calls[c]]
            /\ now' = t
    /\ db' = TRUE
    /\ UNCHANGED <<initPromise, clipVars, records>>
    /\ ModalRenders

\* request.onerror of indexedDB.open: the promise is rejected and stays
OpenFails ==
    /\ \E k \in PendingOpens :
         /\ opens' = [opens EXCEPT ![k] = "rejected"]
         /\ calls' = [c \in CallIds |->
                        IF AwaitsOpen(c, k) THEN AfterInit(calls[c], "rejected", db, now, 1)
                        ELSE calls[c]]
    /\ UNCHANGED <<db, initPromise, clipVars, records, now>>
    /\ ModalRenders

StoreAfterReadTakes(S) == {}

\* the store after a getAll or count request, which runs in a transaction
\* of mode 'readonly'
StoreAfterRead(S) == S

\* getAll() of searchByEmbedding succeeded; with candidates findSimilarAccounts
\* goes on to scoreAndAggregate, which calls getUniqueAccounts
WindowRead(c) ==
    LET me == calls[c]
        all == InKeyOrder(records)
        found == searchByEmbedding(all, me.embedding, me.topN)
        seen == [me EXCEPT !.sawEmpty = (Len(all) = 0),
                           !.mismatch = \E r \in records : Len(r.embedding) # Len(me.embedding)]
    IN
    /\ me.pc = "getall_wait"
    /\ IF found.threw
       THEN /\ calls' = [calls EXCEPT ![c] = Thrown(seen, LengthError)]
            /\ UNCHANGED <<dbVars, now>>
       ELSE IF WindowIsEmpty(found.results)
       THEN /\ calls' = [calls EXCEPT ![c] =
                           Resolved([seen EXCEPT !.reports = @ \o ReportsNoCandidates], <<>>)]
            /\ UNCHANGED <<dbVars, now>>
       ELSE EnterStore(c, [seen EXCEPT !.candidates = found.results,
                                       !.reports = @ \o ReportsCandidates],
                       "accounts_wait", now, 1)
    /\ records' = StoreAfterRead(records)
    /\ UNCHANGED clipVars
    /\ ModalRenders

StatsSwapped(count, accounts, ready) ==
    [totalImages |-> Len(accounts), uniqueAccounts |-> count, isModelReady |-> ready]

\* what getStats returns
Stats(count, accounts, ready) ==
    [totalImages |-> count, uniqueAccounts |-> Len(accounts), isModelReady |-> ready]

\* getAll() of getUniqueAccounts succeeded: in findSimilarAccounts scoring,
\* then done; in getStats the length of the list and isCLIPReady()
AccountsRead(c) ==
    LET me == calls[c]
        uniqueAccounts == getUniqueAccounts(InKeyOrder(records))
        scored == scoreAndAggregate(me.candidates, me.queryHash, me.eventName, uniqueAccounts)
    IN
    /\ me.pc = "accounts_wait"
    /\ calls' = [calls EXCEPT ![c] =
                   IF me.op = "stats"
                   THEN Resolved(me, <<Stats(me.totalImages, uniqueAccounts, embeddingPipeline)>>)
                   ELSE Resolved([me EXCEPT !.reports = @ \o ReportsScored], scored)]
    /\ records' = StoreAfterRead(records)
    /\ UNCHANGED <<clipVars, dbVars, now>>
    /\ ModalRenders

\* count() of getStats succeeded: getStats goes on to getUniqueAccounts
CountRead(c) ==
    LET me == calls[c] IN
    /\ me.pc = "count_wait"
    /\ EnterStore(c, [me EXCEPT !.totalImages = Cardinality(records)], "accounts_wait", now, 1)
    /\ records' = StoreAfterRead(records)
    /\ UNCHANGED clipVars
    /\ ModalRenders

\* request.onerror of a getAll, count, delete or clear request, or of an add
\* request for a reason other than the key
RequestFails(c) ==
    /\ calls[c].pc \in {"getall_wait", "accounts_wait", "count_wait", "add_wait",
                        "delete_wait", "clear_wait"}
    /\ calls' = [calls EXCEPT ![c] = Thrown(calls[c], RequestError)]
    /\ UNCHANGED <<clipVars, dbVars, records, now>>
    /\ ModalRenders

\* store.add(fullRecord) executed
AddExecutes(c) ==
    LET me == calls[c]
        rec == me.fullRecord[1]
        done == objectStore_add(records, rec)
        tried == [me EXCEPT !.collided = KeyExists(records, rec.id)]
    IN
    /\ me.pc = "add_wait"
    /\ records' = done.records
    /\ calls' = [calls EXCEPT ![c] = IF done.ok THEN Resolved(tried, <<rec.id>>)
                                     ELSE Thrown(tried, ConstraintError)]
    /\ UNCHANGED <<clipVars, dbVars, now>>
    /\ ModalRenders

\* store.delete(id) executed
DeleteExecutes(c) ==
    /\ calls[c].pc = "delete_wait"
    /\ records' = {r \in records : r.id # calls[c].target}
    /\ calls' = [calls EXCEPT ![c] = Resolved(calls[c], <<>>)]
    /\ UNCHANGED <<clipVars, dbVars, now>>
    /\ ModalRenders

\* store.clear() executed
ClearExecutes(c) ==
    /\ calls[c].pc = "clear_wait"
    /\ records' = {}
    /\ calls' = [calls EXCEPT ![c] = Resolved(calls[c], <<>>)]
    /\ UNCHANGED <<clipVars, dbVars, now>>
    /\ ModalRenders

\* the readwrite transaction of an add, delete or clear aborts when it
\* commits (quota exceeded, write error), after request.onsuccess has
\* resolved the promise: the methods resolve on the request and listen
\* neither to tx.oncomplete nor to tx.onabort, and the write is rolled back
CommitFails(c) ==
    LET me == calls[c] IN
    /\ me.pc \in {"add_wait", "delete_wait", "clear_wait"}
    /\ IF me.pc = "add_wait" THEN ~KeyExists(records, me.fullRecord[1].id) ELSE TRUE
    /\ calls' = [calls EXCEPT ![c] =
                   Resolved(me, IF me.pc = "add_wait" THEN <<me.fullRecord[1].id>> ELSE <<>>)]
    /\ UNCHANGED <<clipVars, dbVars, records, now>>
    /\ ModalRenders

Next ==
    \/ \E c \in CallIds : StartSearch(c)
    \/ \E c \in CallIds : StartRegister(c)
    \/ \E c \in CallIds : StartInitCLIP(c)
    \/ \E c \in CallIds : StartDelete(c)
    \/ \E c \in CallIds : StartClear(c)
    \/ \E c \in CallIds : StartStats(c)
    \/ ClipLoadSucceeds
    \/ ClipLoadFails
    \/ \E c \in CallIds : EmbedSucceeds(c)
    \/ \E c \in CallIds : EmbedFails(c)
    \/ \E c \in CallIds : HashSucceeds(c)
    \/ \E c \in CallIds : HashFails(c)
    \/ OpenSucceeds
    \/ OpenFails
    \/ \E c \in CallIds : WindowRead(c)
    \/ \E c \in CallIds : AccountsRead(c)
    \/ \E c \in CallIds : CountRead(c)
    \/ \E c \in CallIds : RequestFails(c)
    \/ \E c \in CallIds : AddExecutes(c)
    \/ \E c \in CallIds : DeleteExecutes(c)
    \/ \E c \in CallIds : ClearExecutes(c)
    \/ \E c \in CallIds : CommitFails(c)

Spec == Init /\ [][Next]_vars

\* ------------------------------------------- the search over larger indexes
\* Ranking and scoring are checked on indexes that the few calls of Spec do
\* not build. The specifications below start where a findSimilarAccounts
\* has its embedding and hash and waits for the getAll of searchByEmbedding,
\* the model loaded and the database open, and run its two reads.

\* the index contents: records <<0, 1>> .. <<0, k>>, each with one of the
\* given contents
StoresOf(contents) ==
    UNION {{{ImageRecord(<<0, i>>, f[i].embedding, f[i].pHash, f[i].account, f[i].eventName, 0) :
                i \in 1..k} : f \in [1..k -> contents]} : k \in 0..MaxRecords}

\* findSimilarAccounts after computePHash, at the getAll of searchByEmbedding
SearchAtGetAll(q, h, ev, n) ==
    [IdleCall EXCEPT !.op = "search", !.pc = "getall_wait", !.eventName = ev, !.topN = n,
                     !.embedding = q, !.queryHash = h,
                     !.steps = <<"embed", "hash", "getall_wait">>,
                     !.reports = ReportsAtStart \o ReportsModelReady \o ReportsEmbedded
                                   \o ReportsHashed]

\* vectorStore.delete(id) at its request
DeleteAtRequest(id) ==
    [IdleCall EXCEPT !.op = "delete", !.pc = "delete_wait", !.target = id,
                     !.steps = <<"delete_wait">>]

\* the model is loaded, the database open, the index holds store, the first
\* call is the search and the second the other call
Loaded(store, search, other) ==
    /\ embeddingPipeline = TRUE
    /\ isLoading = FALSE
    /\ loadingPromise = 1
    /\ clipLoads = <<"resolved">>
    /\ db = TRUE
    /\ initPromise = 1
    /\ opens = <<"resolved">>
    /\ records = store
    /\ now = 0
    /\ calls = [c \in CallIds |-> IF c = 1 THEN search ELSE IF c = 2 THEN other ELSE IdleCall]
    /\ modal = ModalInit

AccountA == [name |-> "A", handle |-> "@a"]
AccountB == [name |-> "B", handle |-> "@b"]

\* searchByEmbedding(queryEmbedding, topN) for every topN: embeddings at
\* cosine 1, 0.8, 0.6, 0 and -1 of one another
TopNEmbeddings == {<<1, 0>>, <<0, 1>>, <<3, 4>>, <<-1, 0>>}
TopNContents ==
    {[embedding |-> e, pHash |-> HashZero, account |-> AccountA, eventName |-> NoEvent] :
        e \in TopNEmbeddings}

InitTopN ==
    \E store \in StoresOf(TopNContents), q \in {<<1, 0>>, <<3, 4>>}, n \in 0..(MaxRecords + 1) :
        Loaded(store, SearchAtGetAll(q, HashZero, NoEvent, n), IdleCall)

NextTopN == \E c \in CallIds : WindowRead(c)

SpecTopN == InitTopN /\ [][NextTopN]_vars

\* scoreAndAggregate: images of two accounts that differ in embedding, hash
\* and event name; the query is <<1, 0>> with the hash HashZero. The window
\* is TOP_N_SEARCH records, or one record less than the largest index, which
\* is to that index what TOP_N_SEARCH is to an index of more than fifty
\* records. A delete of the first record by another caller may execute
\* before, between or after the two reads.
TagT == <<"T">>
ImageKinds ==
    {[embedding |-> <<1, 0>>, pHash |-> HashZero, eventName |-> NoEvent],
     [embedding |-> <<1, 0>>, pHash |-> HashOnes, eventName |-> <<TagT>>],
     [embedding |-> <<3, 4>>, pHash |-> HashZero, eventName |-> <<TagT>>]}
ScoreContents ==
    {[embedding |-> k.embedding, pHash |-> k.pHash, account |-> a, eventName |-> k.eventName] :
        k \in ImageKinds, a \in {AccountA, AccountB}}

InitScore ==
    \E store \in StoresOf(ScoreContents), ev \in {NoEvent, <<TagT>>},
       n \in {MaxRecords - 1, TOP_N_SEARCH} :
        \E other \in {IdleCall} \cup {DeleteAtRequest(r.id) : r \in {x \in store : x.id = <<0, 1>>}} :
            Loaded(store, SearchAtGetAll(<<1, 0>>, HashZero, ev, n), other)

NextScore ==
    \/ \E c \in CallIds : WindowRead(c)
    \/ \E c \in CallIds : AccountsRead(c)
    \/ \E c \in CallIds : DeleteExecutes(c)

SpecScore == InitScore /\ [][NextScore]_vars

\* the metadata bonus for every pair of event names of up to MaxTagLen
\* characters, absent and empty ones included: a search with one over an
\* index of one record with the other
TagChars == {"T", "G"}
Tags == UNION {[1..k -> TagChars] : k \in 0..MaxTagLen}
OptionalTags == {NoEvent} \cup {<<t>> : t \in Tags}

InitMeta ==
    \E recordEvent \in OptionalTags, eventName \in OptionalTags :
        Loaded({ImageRecord(<<0, 1>>, <<1, 0>>, HashZero, AccountA, recordEvent, 0)},
               SearchAtGetAll(<<1, 0>>, HashZero, eventName, TOP_N_SEARCH), IdleCall)

NextMeta ==
    \/ \E c \in CallIds : WindowRead(c)
    \/ \E c \in CallIds : AccountsRead(c)

SpecMeta == InitMeta /\ [][NextMeta]_vars

\* hammingDistance and pHashSimilarity for every pair of hashes among the
\* hex strings of up to MaxHashLen digits and three hashes of 16 digits: a
\* search with one over an index of one record with the other
HashDigits == {0, 5, 15}
HashMixed == [i \in 1..16 |-> IF i % 2 = 1 THEN 15 ELSE 0]
HashStrings ==
    UNION {[1..k -> HashDigits] : k \in 0..MaxHashLen} \cup {HashZero, HashOnes, HashMixed}

InitHash ==
    \E pHash \in HashStrings, queryHash \in HashStrings :
        Loaded({ImageRecord(<<0, 1>>, <<1, 0>>, pHash, AccountA, NoEvent, 0)},
               SearchAtGetAll(<<1, 0>>, queryHash, NoEvent, TOP_N_SEARCH), IdleCall)

NextHash ==
    \/ \E c \in CallIds : WindowRead(c)
    \/ \E c \in CallIds : AccountsRead(c)

SpecHash == InitHash /\ [][NextHash]_vars

\* The two reads of findSimilarAccounts and the two reads of getStats against
\* a write of another caller: the first call is a search at its getAll or a
\* getStats at its count, the second a delete, a clear or the add of a
\* register at its request, which may execute before, between or after the
\* two reads
StatsAtCount ==
    [IdleCall EXCEPT !.op = "stats", !.pc = "count_wait", !.cont = "count_wait",
                     !.steps = <<"count_wait">>]

ClearAtRequest ==
    [IdleCall EXCEPT !.op = "clear", !.pc = "clear_wait", !.cont = "clear_wait",
                     !.steps = <<"clear_wait">>]

RegisterAtAdd(account) ==
    [IdleCall EXCEPT !.op = "register", !.pc = "add_wait", !.cont = "add_wait",
                     !.account = account, !.embedding = <<1, 0>>, !.queryHash = HashZero,
                     !.fullRecord = <<ImageRecord(<<0, MaxRecords + 1>>, <<1, 0>>, HashZero,
                                                  account, NoEvent, 0)>>,
                     !.steps = <<"embed", "hash", "add_wait">>]

RaceContents ==
    {[embedding |-> <<1, 0>>, pHash |-> HashZero, account |-> a, eventName |-> NoEvent] :
        a \in {AccountA, AccountB}}

InitRace ==
    \E store \in StoresOf(RaceContents),
       first \in {SearchAtGetAll(<<1, 0>>, HashZero, NoEvent, TOP_N_SEARCH), StatsAtCount},
       other \in {IdleCall, DeleteAtRequest(<<0, 1>>), ClearAtRequest,
                  RegisterAtAdd(AccountA), RegisterAtAdd(AccountB)} :
        Loaded(store, first, other)

NextRace ==
    \/ \E c \in CallIds : WindowRead(c)
    \/ \E c \in CallIds : CountRead(c)
    \/ \E c \in CallIds : AccountsRead(c)
    \/ \E c \in CallIds : AddExecutes(c)
    \/ \E c \in CallIds : DeleteExecutes(c)
    \/ \E c \in CallIds : ClearExecutes(c)

SpecRace == InitRace /\ [][NextRace]_vars

\* SimilaritySearchModal: every search is started by a run of its effect
NextModal ==
    \/ \E c \in CallIds : ModalEffect(c)
    \/ ClipLoadSucceeds
    \/ ClipLoadFails
    \/ \E c \in CallIds : EmbedSucceeds(c)
    \/ \E c \in CallIds : EmbedFails(c)
    \/ \E c \in CallIds : HashSucceeds(c)
    \/ \E c \in CallIds : HashFails(c)
    \/ OpenSucceeds
    \/ OpenFails
    \/ \E c \in CallIds : WindowRead(c)
    \/ \E c \in CallIds : AccountsRead(c)
    \/ \E c \in CallIds : RequestFails(c)

SpecModal == Init /\ [][NextModal]_vars

\* findSimilarAccounts alone: up to MaxCalls searches, started at any moment,
\* over an index that no call changes
NextSearch ==
    \/ \E c \in CallIds : StartSearch(c)
    \/ ClipLoadSucceeds
    \/ ClipLoadFails
    \/ \E c \in CallIds : EmbedSucceeds(c)
    \/ \E c \in CallIds : EmbedFails(c)
    \/ \E c \in CallIds : HashSucceeds(c)
    \/ \E c \in CallIds : HashFails(c)
    \/ OpenSucceeds
    \/ OpenFails
    \/ \E c \in CallIds : WindowRead(c)
    \/ \E c \in CallIds : AccountsRead(c)
    \/ \E c \in CallIds : RequestFails(c)

SpecSearch == Init /\ [][NextSearch]_vars

\* a request to a collaborator completes, with success or with failure: the
\* model load, the embedding extraction, the hash computation, the open of
\* the store, a read of the store
RequestCompletes ==
    \/ ClipLoadSucceeds \/ ClipLoadFails
    \/ OpenSucceeds \/ OpenFails
    \/ \E c \in CallIds : EmbedSucceeds(c) \/ EmbedFails(c)
    \/ \E c \in CallIds : HashSucceeds(c) \/ HashFails(c)
    \/ \E c \in CallIds : RequestFails(c) \/ WindowRead(c) \/ AccountsRead(c)

\* while a request is in flight, one of the requests in flight completes:
\* no more than what the completion of every single request gives
CollaboratorsComplete == WF_vars(RequestCompletes)

FairSearch == SpecSearch /\ CollaboratorsComplete

\* ------------------------------------------------------------------ claims
StatusRank(status) ==
    CASE status = "initializing" -> 1
      [] status = "extracting_embedding" -> 2
      [] status = "searching" -> 3
      [] status = "scoring" -> 4
      [] status = "done" -> 5

Searches == {c \in CallIds : calls[c].op = "search"}
Registers == {c \in CallIds : calls[c].op = "register"}

StatusesOf(c) == {calls[c].reports[i].status : i \in 1..Len(calls[c].reports)}
StepsOf(c) == {calls[c].steps[i] : i \in 1..Len(calls[c].steps)}
LastReport(c) == calls[c].reports[Len(calls[c].reports)]

\* C1: within one findSimilarAccounts call the progress reports never go
\* back in the order initializing < extracting_embedding < searching <
\* scoring < done, and each reported percentage is greater than the one before
C1_ProgressForwardOnly ==
    \A c \in Searches :
        \A i \in 1..(Len(calls[c].reports) - 1) :
            /\ StatusRank(calls[c].reports[i].status) <= StatusRank(calls[c].reports[i + 1].status)
            /\ calls[c].reports[i].progress < calls[c].reports[i + 1].progress

\* a search that went through every step and reported all eight times
C1_Witness ==
    \E c \in Searches :
        /\ calls[c].outcome = "resolved"
        /\ Len(calls[c].reports) = 8
        /\ StatusesOf(c) = {"initializing", "extracting_embedding", "searching", "scoring", "done"}

\* C2: a search whose read of the index finds no record resolves with the
\* empty list, its last report is done at 100, it never reports scoring and
\* never issues the read of getUniqueAccounts
C2_EmptyIndexSkipsScoring ==
    \A c \in Searches :
        calls[c].sawEmpty =>
            /\ calls[c].outcome = "resolved"
            /\ calls[c].result = <<>>
            /\ LastReport(c) = Progress("done", 100)
            /\ "scoring" \notin StatusesOf(c)
            /\ "accounts_wait" \notin StepsOf(c)

\* a search has read the empty index
C2_Witness ==
    \E c \in Searches : calls[c].sawEmpty /\ calls[c].pc = "done" /\ records = {}

\* C3: indexedDB.open is issued at most once, and every store method that
\* waits for the initialization waits for that one open
C3_SingleOpen ==
    /\ Len(opens) <= 1
    /\ \A c \in CallIds :
         calls[c].pc = "db_wait" => calls[c].awaiting = 1 /\ initPromise = 1

\* two store methods wait for the same open, still in flight
C3_Witness ==
    \E c, d \in CallIds :
        /\ c # d
        /\ calls[c].pc = "db_wait" /\ calls[d].pc = "db_wait"
        /\ calls[c].awaiting = calls[d].awaiting
        /\ opens[calls[c].awaiting] = "pending"

\* C4: at most one model load is in flight, and a call of initCLIP that
\* arrives while a load is in flight waits for that load
C4_SingleLoadInFlight ==
    /\ Cardinality(PendingLoads) <= 1
    /\ \A c \in CallIds :
         calls[c].pc = "clip_wait" =>
            /\ calls[c].awaiting \in PendingLoads
            /\ calls[c].arrivedDuring # 0 => calls[c].awaiting = calls[c].arrivedDuring

\* a search and a register wait for the same load, the second having
\* arrived while it was in flight
C4_Witness ==
    \E c \in Searches, d \in Registers :
        /\ calls[c].pc = "clip_wait" /\ calls[d].pc = "clip_wait"
        /\ calls[c].awaiting = calls[d].awaiting
        /\ calls[c].arrivedDuring # 0 \/ calls[d].arrivedDuring # 0

\* C5: once the pipeline is set it stays set, and from then on no model
\* load is started
C5_ReadyForever ==
    [][embeddingPipeline =>
          /\ embeddingPipeline'
          /\ clipLoads' = clipLoads
          /\ ~isLoading']_vars

\* initCLIP was called with the pipeline set and has returned
C5_Witness ==
    /\ embeddingPipeline
    /\ \E c \in CallIds :
         /\ calls[c].op = "initCLIP"
         /\ calls[c].clipBranch = "return"
         /\ calls[c].outcome = "resolved"

\* C6: a search whose query embedding differs in length from a stored record
\* rejects with the length error of cosineSimilarity, and no candidate of a
\* search has an embedding of another length than the query
C6_MismatchIsAnError ==
    \A c \in Searches :
        /\ calls[c].mismatch =>
              /\ calls[c].outcome = "rejected"
              /\ calls[c].error = LengthError
              /\ calls[c].result = <<>>
        /\ \A i \in 1..Len(calls[c].candidates) :
              Len(calls[c].candidates[i].rec.embedding) = Len(calls[c].embedding)

\* a search has met a stored record of another length
C6_Witness ==
    \E c \in Searches : calls[c].mismatch /\ calls[c].pc = "done"

\* C7: all stored records have embeddings of the same length
C7_SameDimension ==
    \A r, q \in records : Len(r.embedding) = Len(q.embedding)

\* C8: a search in which a step failed is rejected with the error that step
\* raised and without a result, a search that resolves had no failure, and
\* no step is started twice
C8_ErrorsPropagateUnmodified ==
    \A c \in Searches :
        /\ calls[c].raised # NoError =>
              /\ calls[c].pc = "done"
              /\ calls[c].outcome = "rejected"
              /\ calls[c].error = calls[c].raised
              /\ calls[c].result = <<>>
        /\ calls[c].outcome = "resolved" => calls[c].raised = NoError
        /\ Cardinality(StepsOf(c)) = Len(calls[c].steps)

\* searches have failed in the read of getUniqueAccounts, after scoring was
\* reported, and in the model load
C8_Witness ==
    /\ \E c \in Searches :
         /\ calls[c].error = RequestError
         /\ "accounts_wait" \in StepsOf(c)
    /\ \E c \in Searches : calls[c].error = ModelLoadError

\* C9: a register in which the embedding extraction or the hash computation
\* failed is rejected with that error and has not called add
C9_FailedRegisterStoresNothing ==
    \A c \in Registers :
        calls[c].raised \in {EmbedError, HashError} =>
            /\ calls[c].outcome = "rejected"
            /\ calls[c].error = calls[c].raised
            /\ "add_wait" \notin StepsOf(c)
            /\ calls[c].fullRecord = <<>>

\* a register has failed in computePHash
C9_Witness ==
    \E c \in Registers : calls[c].raised = HashError /\ calls[c].pc = "done"

\* C10: no two stored records share an id, and an add whose id is already
\* stored is rejected with a ConstraintError
C10_UniqueIds ==
    /\ \A r, q \in records : r.id = q.id => r = q
    /\ \A c \in Registers :
         calls[c].collided =>
            calls[c].outcome = "rejected" /\ calls[c].error = ConstraintError

\* an add met a stored record with its id
C10_Witness ==
    \E c \in Registers : calls[c].collided /\ calls[c].pc = "done" /\ records # {}

\* C11: the step in which an add settles leaves the index unchanged when the
\* add is rejected, and when it resolves with an id the index holds the
\* complete record of that id, which is the only record of that id
C11_InsertAtomic ==
    [][\A c \in CallIds :
          (calls[c].pc = "add_wait" /\ calls'[c].pc = "done") =>
             LET rec == calls[c].fullRecord[1] IN
             /\ calls'[c].outcome = "rejected" => records' = records
             /\ calls'[c].outcome = "resolved" =>
                   /\ calls'[c].result = <<rec.id>>
                   /\ rec \in records'
                   /\ \A r \in records' : r.id = rec.id => r = rec]_vars

\* the calls that take a step
Stepping == {c \in CallIds : calls'[c] # calls[c]}

\* C12: the step in which a register resolves adds exactly one record to
\* the index, whose count grows by one, and no step of a search, a register
\* or a getStats removes or changes a record that was stored
C12_RegisterAppendOnly ==
    [][/\ \A c \in CallIds :
             (calls'[c].op = "register" /\ calls[c].pc # "done"
                  /\ calls'[c].pc = "done" /\ calls'[c].outcome = "resolved") =>
                /\ Cardinality(records') = Cardinality(records) + 1
                /\ \E rec \in records' : rec \notin records /\ records' = records \cup {rec}
       /\ (\A c \in Stepping : calls'[c].op \in {"search", "register", "stats"}) =>
             records \subseteq records']_vars

\* C13: no step of a findSimilarAccounts or of a getStats, whether the call
\* goes on, resolves or rejects in it, changes the index
C13_ReadsLeaveIndex ==
    [][\A c \in Stepping :
          calls'[c].op \in {"search", "stats"} => records' = records]_vars

\* a search has resolved with candidates and a getStats with its numbers,
\* over an index that holds a record
C13_Witness ==
    /\ records # {}
    /\ \E c \in CallIds :
         /\ calls[c].op = "search" /\ calls[c].outcome = "resolved" /\ calls[c].result # <<>>
    /\ \E c \in CallIds :
         /\ calls[c].op = "stats" /\ calls[c].outcome = "resolved"
         /\ calls[c].result[1].totalImages = 1

\* ---- ranking and scoring
\* the cosine of a stored record to the query q
ScoreOf(r, q) == cosineSimilarity(q, r.embedding).value

\* C14: the window searchByEmbedding returns for a query and an n is in
\* non-increasing order of score, is at most n and at most the index long,
\* holds records of the index with their scores, and no record left out
\* scores higher than a record of the window
C14_TopNRanked ==
    \A c \in Searches :
        (calls[c].pc = "accounts_wait" \/ calls[c].outcome = "resolved") =>
            LET w == calls[c].candidates
                q == calls[c].embedding
            IN /\ \A i \in 1..(Len(w) - 1) : w[i].clipScore >= w[i + 1].clipScore
               /\ Len(w) <= calls[c].topN
               /\ Len(w) <= Cardinality(records)
               /\ \A i \in 1..Len(w) :
                     w[i].rec \in records /\ w[i].clipScore = ScoreOf(w[i].rec, q)
               /\ \A r \in records :
                     (\A i \in 1..Len(w) : w[i].rec # r) =>
                         \A i \in 1..Len(w) : ScoreOf(r, q) <= w[i].clipScore

\* a window of n records with two scores, cut from an index that holds a
\* record more, which scores lower than the last of the window
C14_Witness ==
    \E c \in Searches :
        LET w == calls[c].candidates IN
        /\ calls[c].pc = "accounts_wait"
        /\ Len(w) = calls[c].topN /\ Len(w) >= 2
        /\ w[1].clipScore > w[Len(w)].clipScore
        /\ \E r \in records :
              /\ \A i \in 1..Len(w) : w[i].rec # r
              /\ ScoreOf(r, calls[c].embedding) < w[Len(w)].clipScore

\* the step in which scoreAndAggregate of call c returns
Scores(c) ==
    /\ calls[c].op = "search"
    /\ calls[c].pc = "accounts_wait"
    /\ calls'[c].outcome = "resolved"

HandlesOf(w) == {w[i].rec.accountHandle : i \in 1..Len(w)}
PositionsOf(w, h) == {i \in 1..Len(w) : w[i].rec.accountHandle = h}
FirstOf(w, h) == CHOOSE i \in PositionsOf(w, h) : \A j \in PositionsOf(w, h) : i <= j
\* the records of account h in the index as getUniqueAccounts reads it
CountInIndex(h) == Cardinality({r \in records : r.accountHandle = h})
MaxCountInIndex == MaxOf({CountInIndex(r.accountHandle) : r \in records} \cup {0})
ResolvedSearches == {c \in Searches : calls[c].outcome = "resolved"}

\* C15: the list scoreAndAggregate returns has exactly one candidate for
\* every account handle of the window and none for another handle
C15_OneCandidatePerHandle ==
    [][\A c \in CallIds :
          Scores(c) =>
             LET w == calls[c].candidates
                 res == calls'[c].result
             IN /\ {res[k].accountHandle : k \in 1..Len(res)} = HandlesOf(w)
                /\ \A j, k \in 1..Len(res) :
                      res[j].accountHandle = res[k].accountHandle => j = k]_vars

\* a result of two candidates, one of them with two matched images
C15_Witness ==
    \E c \in ResolvedSearches :
        /\ Len(calls[c].result) = 2
        /\ \E k \in 1..2 : Len(calls[c].result[k].matchedImages) = 2

\* C16 as claimed: the candidate of a handle with two or more records in the
\* window lists every one of them in matchedImages, and its imageCount is
\* at least their number
C16_CountCoversMatched ==
    [][\A c \in CallIds :
          Scores(c) =>
             LET w == calls[c].candidates
                 res == calls'[c].result
             IN \A k \in 1..Len(res) :
                   LET pos == PositionsOf(w, res[k].accountHandle) IN
                   Cardinality(pos) >= 2 =>
                      /\ Len(res[k].matchedImages) = Cardinality(pos)
                      /\ {res[k].matchedImages[i].id : i \in 1..Len(res[k].matchedImages)}
                            = {w[i].rec.id : i \in pos}
                      /\ res[k].imageCount >= Cardinality(pos)]_vars

\* C16: the candidate of a handle with two or more records in the window
\* lists every one of them in matchedImages, in the order of the window and
\* with its embedding score; its imageCount is the number of records of the
\* handle in the index when getUniqueAccounts reads it, 1 if there is none,
\* and is at least their number when all of them are still stored then
C16_AllImagesListed ==
    [][\A c \in CallIds :
          Scores(c) =>
             LET w == calls[c].candidates
                 res == calls'[c].result
             IN \A k \in 1..Len(res) :
                   LET h == res[k].accountHandle
                       pos == PositionsOf(w, h)
                       listed == res[k].matchedImages
                   IN Cardinality(pos) >= 2 =>
                      /\ Len(listed) = Cardinality(pos)
                      /\ \A i \in 1..Len(listed) :
                            \E p \in pos :
                               /\ Cardinality({x \in pos : x <= p}) = i
                               /\ listed[i] = [id |-> w[p].rec.id, score |-> w[p].clipScore]
                      /\ res[k].imageCount =
                            (IF CountInIndex(h) = 0 THEN 1 ELSE CountInIndex(h))
                      /\ (\A p \in pos : w[p].rec \in records) =>
                            res[k].imageCount >= Cardinality(pos)]_vars

\* a candidate with two matched images, one of which was deleted between
\* the two reads: its imageCount is 1
C16_Witness ==
    \E c \in ResolvedSearches :
        \E k \in 1..Len(calls[c].result) :
            /\ Len(calls[c].result[k].matchedImages) = 2
            /\ calls[c].result[k].imageCount = 1

\* C17: the totalScore of a candidate is the greatest value of
\* clip * 0.50 + pHash * 0.30 + metadata * 0.15 among the images of its
\* account in the window, plus frequency * 0.05, and its component scores
\* are those of one image with that value; for an index of one record with
\* the embedding and the hash of the query and no event name it is 0.805
C17_BestImageWins ==
    [][\A c \in CallIds :
          Scores(c) =>
             LET w == calls[c].candidates
                 res == calls'[c].result
                 hashOf(i) == pHashSimilarity(calls[c].queryHash, w[i].rec.pHash)
                 bonusOf(i) == metadataBonusOf(w[i].rec.eventName, calls[c].eventName)
                 combined(i) == w[i].clipScore * 50 + hashOf(i) * 30 + bonusOf(i) * 15
             IN /\ \A k \in 1..Len(res) :
                      LET pos == PositionsOf(w, res[k].accountHandle)
                          top == MaxOf({combined(i) : i \in pos})
                      IN /\ res[k].totalScore = top + res[k].scores.frequency * 5
                         /\ \E i \in pos :
                               /\ combined(i) = top
                               /\ res[k].scores.clip = w[i].clipScore
                               /\ res[k].scores.pHash = hashOf(i)
                               /\ res[k].scores.metadata = bonusOf(i)
                /\ (/\ Len(w) = 1
                    /\ records = {w[1].rec}
                    /\ w[1].rec.embedding = calls[c].embedding
                    /\ w[1].rec.pHash = calls[c].queryHash
                    /\ calls[c].eventName = NoEvent) =>
                      res[1].totalScore * 10 = 805 * SCALE]_vars

\* a candidate with two matched images whose scores are those of the image
\* with the lower embedding score and the closer hash
C17_Witness ==
    \E c \in ResolvedSearches :
        \E k \in 1..Len(calls[c].result) :
            LET cand == calls[c].result[k] IN
            /\ Len(cand.matchedImages) = 2
            /\ cand.scores.clip < cand.matchedImages[1].score
            /\ cand.scores.pHash = SCALE

\* C18: the list scoreAndAggregate returns is in non-increasing order of
\* totalScore, and of two candidates with the same totalScore the one whose
\* handle appears first in the window comes first
C18_SortedByTotal ==
    [][\A c \in CallIds :
          Scores(c) =>
             LET w == calls[c].candidates
                 res == calls'[c].result
             IN \A j, k \in 1..Len(res) :
                   j < k =>
                      /\ res[j].totalScore >= res[k].totalScore
                      /\ res[j].totalScore = res[k].totalScore =>
                            FirstOf(w, res[j].accountHandle) < FirstOf(w, res[k].accountHandle)]_vars

\* two candidates with the same totalScore, the account of the later record
\* first
C18_Witness ==
    \E c \in ResolvedSearches :
        /\ Len(calls[c].result) = 2
        /\ calls[c].result[1].totalScore = calls[c].result[2].totalScore
        /\ calls[c].result[1].accountHandle = "@b"
        /\ calls[c].result[1].matchedImages[1].id = <<0, 2>>

\* the bonus of the rule of C19 for a record tag and a query tag, both
\* present: 0.2 if equal, else 0.1 if one contains the other, else 0
PairBonus(recordTag, queryTag) ==
    IF recordTag = queryTag THEN SCALE \div 5
    ELSE IF Includes(recordTag, queryTag) \/ Includes(queryTag, recordTag) THEN SCALE \div 10
    ELSE 0

\* the search of SpecMeta has scored the one record of the index
MetaScored(c) == calls[c].outcome = "resolved" /\ Len(calls[c].result) = 1

\* C19 as claimed: for every query event name and record event name the
\* bonus is 0.2 if they are equal, else 0.1 if one contains the other, else
\* 0, and it is 0 when the query event name is absent
C19_BonusForEveryPair ==
    \A c \in Searches :
        MetaScored(c) =>
            \A r \in records :
                calls[c].result[1].scores.metadata =
                    (IF calls[c].eventName = NoEvent \/ r.eventName = NoEvent THEN 0
                     ELSE PairBonus(r.eventName[1], calls[c].eventName[1]))

\* C19: the bonus is 0 when the query event name or the record event name
\* is absent or the empty string; for every other pair it is 0.2 if they
\* are equal, else 0.1 if one contains the other, else 0
C19_BonusForNonEmptyPairs ==
    \A c \in Searches :
        MetaScored(c) =>
            \A r \in records :
                calls[c].result[1].scores.metadata =
                    (IF calls[c].eventName \in {NoEvent, <<<<>>>>}
                           \/ r.eventName \in {NoEvent, <<<<>>>>} THEN 0
                     ELSE PairBonus(r.eventName[1], calls[c].eventName[1]))

\* a search with an event name has scored a record whose event name is the
\* empty string, with the bonus 0
C19_Witness ==
    \E c \in Searches :
        /\ MetaScored(c)
        /\ calls[c].eventName = <<TagT>>
        /\ \E r \in records : r.eventName = <<<<>>>>
        /\ calls[c].result[1].scores.metadata = 0

\* C20 as claimed: the frequency bonus of a candidate is the count of its
\* account divided by the greatest count of an account, both over the whole
\* index, times 0.1; it lies in [0, 0.1] and is 0.1 for an account with the
\* greatest count
C20_FrequencyOfIndex ==
    [][\A c \in CallIds :
          Scores(c) =>
             LET res == calls'[c].result IN
             \A k \in 1..Len(res) :
                LET count == CountInIndex(res[k].accountHandle)
                    bonus == res[k].scores.frequency
                IN /\ bonus >= 0 /\ bonus <= SCALE \div 10
                   /\ records # {} =>
                         /\ bonus * MaxCountInIndex = count * (SCALE \div 10)
                         /\ count = MaxCountInIndex => bonus = SCALE \div 10]_vars

\* C20: the frequency bonus of a candidate is c / m * 0.1, where c is the
\* count of its account in the index as getUniqueAccounts reads it, or 1 if
\* the account has no record there, and m the greatest count of an account
\* there, or 1 if the index is empty; it lies in [0, 0.1] and is 0.1 for an
\* account with the greatest count, however many of its images are in the
\* window
C20_FrequencyWithFallback ==
    [][\A c \in CallIds :
          Scores(c) =>
             LET res == calls'[c].result IN
             \A k \in 1..Len(res) :
                LET inIndex == CountInIndex(res[k].accountHandle)
                    count == IF inIndex = 0 THEN 1 ELSE inIndex
                    maxCount == IF MaxCountInIndex = 0 THEN 1 ELSE MaxCountInIndex
                    bonus == res[k].scores.frequency
                IN /\ bonus >= 0 /\ bonus <= SCALE \div 10
                   /\ bonus * maxCount = count * (SCALE \div 10)
                   /\ inIndex = maxCount => bonus = SCALE \div 10]_vars

\* two candidates: an account with the greatest count, of whose images one
\* is in the window, with the bonus 0.1, and an account with a lower bonus
C20_Witness ==
    \E c \in ResolvedSearches :
        /\ Len(calls[c].result) = 2
        /\ \E j, k \in 1..2 :
              /\ calls[c].result[j].scores.frequency = SCALE \div 10
              /\ calls[c].result[j].imageCount = 2
              /\ Len(calls[c].result[j].matchedImages) = 1
              /\ calls[c].result[k].scores.frequency = SCALE \div 20

\* ---- hashes
\* a hash of up to 16 digits with its missing digits as 0
PadTo16(h) == [i \in 1..16 |-> IF i <= Len(h) THEN h[i] ELSE 0]

\* C21: the similarity scoreAndAggregate computes for the hash of the query
\* and the hash of a record is 1 - distance / 64, the distance is the same
\* with the two hashes exchanged, and the distance of a hash to itself is 0
\* and its similarity to itself 1.0
C21_DistanceSymmetric ==
    [][\A c \in CallIds :
          Scores(c) =>
             LET a == calls[c].candidates[1].rec.pHash
                 b == calls[c].queryHash
                 similarity == calls'[c].result[1].scores.pHash
             IN /\ similarity * 64 = SCALE * 64 - hammingDistance(b, a) * SCALE
                /\ hammingDistance(b, a) = hammingDistance(a, b)
                /\ similarity = pHashSimilarity(a, b)
                /\ hammingDistance(a, a) = 0 /\ hammingDistance(b, b) = 0
                /\ pHashSimilarity(a, a) = SCALE /\ pHashSimilarity(b, b) = SCALE
                /\ a = b => similarity = SCALE]_vars

\* a record with a hash of 16 digits was scored for a query with a shorter
\* hash at a distance above 0
C21_Witness ==
    \E c \in ResolvedSearches :
        /\ Len(calls[c].result) = 1
        /\ \E r \in records : Len(r.pHash) = 16
        /\ "accounts_wait" \in StepsOf(c)
        /\ calls[c].result[1].scores.pHash \notin {0, SCALE}

FailuresAt(pc) ==
    CASE pc = "clip_wait" -> {ModelLoadError}
      [] pc = "embed_wait" -> {EmbedError}
      [] pc = "hash_wait" -> {HashError} \cup
                             (IF initPromise # 0 /\ opens[initPromise] = "rejected"
                              THEN {OpenError} ELSE {})
      [] pc = "db_wait" -> {OpenError}
      [] pc = "getall_wait" -> {RequestError, LengthError}
      [] pc = "accounts_wait" -> {RequestError}
      [] OTHER -> {}

\* C23: in every step, a search keeps the reports it has delivered and
\* appends only reports with a greater percentage; it is rejected only by
\* the failure of the request it was waiting for or of the open of the
\* store it enters; it waits only for a
\* request in flight, never for another search; a step moves two searches
\* only when it settles the model load or the open both were waiting for;
\* a search that has settled is not touched again; and the result of a
\* search is scored from its own candidates, hash and event name
C23_SearchesIndependent ==
    [][\A c \in CallIds :
          calls'[c].op = "search" =>
             LET me == calls[c]
                 after == calls'[c]
             IN /\ Len(me.reports) <= Len(after.reports)
                /\ SubSeq(after.reports, 1, Len(me.reports)) = me.reports
                /\ \A i \in (Len(me.reports) + 1)..Len(after.reports) :
                      i > 1 => after.reports[i - 1].progress < after.reports[i].progress
                /\ (me.outcome = "pending" /\ after.outcome = "rejected") =>
                      after.raised \in FailuresAt(me.pc)
                /\ after.pc = "clip_wait" => clipLoads'[after.awaiting] = "pending"
                /\ after.pc = "db_wait" => opens'[after.awaiting] = "pending"
                /\ me.pc = "done" => after = me
                /\ \A d \in CallIds \ {c} :
                      (calls'[d].op = "search" /\ after # me /\ calls'[d] # calls[d]) =>
                         /\ me.pc \in {"clip_wait", "db_wait"}
                         /\ calls[d].pc = me.pc
                         /\ calls[d].awaiting = me.awaiting
                /\ Scores(c) =>
                      after.result = scoreAndAggregate(me.candidates, me.queryHash, me.eventName,
                                                       getUniqueAccounts(InKeyOrder(records)))]_vars

\* the second search has returned its candidate after all eight reports
\* while the first, started before it, still waits for its embedding or a
\* later request
C23_Witness ==
    /\ calls[1].op = "search" /\ calls[2].op = "search"
    /\ calls[2].outcome = "resolved"
    /\ Len(calls[2].result) = 1
    /\ Len(calls[2].reports) = 8
    /\ calls[1].pc \in {"embed_wait", "hash_wait", "getall_wait", "accounts_wait"}
    /\ Len(calls[1].reports) < 8

\* C24: when every request to a collaborator completes, every search that
\* was started returns or rejects
C24_SearchTerminates ==
    \A c \in CallIds : (calls[c].op = "search") ~> (calls[c].pc = "done")

\* a search has settled after it waited for a model load that another call
\* started and for the open of the store, some searches with a result and
\* some with the failure of the open
C24_Witness ==
    \E c \in Searches :
        /\ calls[c].pc = "done"
        /\ calls[c].clipBranch = "share"
        /\ calls[c].raised = OpenError
        /\ \E d \in Searches : d # c /\ calls[d].pc = "done"

\* the positions of the done reports of call c
DoneReports(c) == {i \in 1..Len(calls[c].reports) : calls[c].reports[i].status = "done"}

\* C25: a search that has returned has reported done exactly once, as its
\* last report; a search that has not returned has not reported done, and
\* the last report of a search that was rejected is initializing,
\* extracting_embedding, searching or scoring
C25_DoneIffReturned ==
    \A c \in Searches :
        /\ calls[c].outcome = "resolved" =>
              /\ DoneReports(c) = {Len(calls[c].reports)}
              /\ LastReport(c) = Progress("done", 100)
        /\ calls[c].outcome # "resolved" => DoneReports(c) = {}
        /\ calls[c].outcome = "rejected" =>
              LastReport(c).status \in
                 {"initializing", "extracting_embedding", "searching", "scoring"}

\* one search has returned a candidate and another was rejected after it
\* had reported scoring
C25_Witness ==
    \E c, d \in Searches :
        /\ calls[c].outcome = "resolved" /\ Len(calls[c].result) = 1
        /\ calls[d].outcome = "rejected" /\ LastReport(d).status = "scoring"

\* ---- failures of the initializations
StoreSteps == {"getall_wait", "add_wait", "delete_wait", "clear_wait", "count_wait", "accounts_wait"}
StoreCalls == {c \in CallIds : calls[c].op \in {"delete", "clear", "stats"}}

\* C26: once indexedDB.open has failed, it is the only open ever issued, the
\* store stays without a database and keeps the rejected promise, no call
\* waits for an open or issues a request to the store, and every store
\* method that was called has rejected with the failure of that open
C26_OpenFailureIsPermanent ==
    (opens # <<>> /\ opens[1] = "rejected") =>
        /\ Len(opens) = 1
        /\ ~db /\ initPromise = 1
        /\ \A c \in CallIds :
             /\ calls[c].pc # "db_wait"
             /\ StepsOf(c) \cap StoreSteps = {}
             /\ calls[c].metFailedOpen =>
                   calls[c].outcome = "rejected" /\ calls[c].raised = OpenError
        /\ \A c \in StoreCalls :
             calls[c].outcome = "rejected" /\ calls[c].raised = OpenError
        /\ \A c \in Searches \cup Registers :
             (calls[c].pc = "done" /\ "hash" \in StepsOf(c) /\ calls[c].raised # HashError) =>
                calls[c].outcome = "rejected" /\ calls[c].raised = OpenError

\* a store method that waited for the open was rejected when it failed, and
\* a search that reached the store later was rejected with the same failure
C26_Witness ==
    /\ opens = <<"rejected">>
    /\ \E c \in StoreCalls, d \in Searches :
         /\ ~calls[c].metFailedOpen /\ calls[c].raised = OpenError
         /\ calls[d].metFailedOpen /\ calls[d].error = OpenError

\* the calls that called initCLIP and did not find the pipeline set
CalledInitCLIP == {c \in CallIds : calls[c].clipBranch \in {"load", "share"}}

\* C27: a model load that fails leaves the provider neither ready nor
\* loading: isLoading is set exactly while a load is in flight and the
\* pipeline exactly when a load has succeeded. Its failure reaches every
\* call that waited for it: no call waits for a load that has settled, a
\* call is rejected with the load error only when a load has failed, and a
\* call gets past initCLIP only with the pipeline set. A call of initCLIP
\* shares only a load in flight, so that after a failure the next call
\* starts a new load
C27_LoadFailureIsNotPermanent ==
    /\ isLoading <=> PendingLoads # {}
    /\ embeddingPipeline <=> \E k \in 1..Len(clipLoads) : clipLoads[k] = "resolved"
    /\ \A c \in CallIds :
         /\ calls[c].pc = "clip_wait" => calls[c].awaiting \in PendingLoads
         /\ calls[c].raised = ModelLoadError =>
               /\ c \in CalledInitCLIP
               /\ calls[c].outcome = "rejected"
               /\ \E k \in 1..Len(clipLoads) : clipLoads[k] = "rejected"
         /\ (c \in CalledInitCLIP /\ calls[c].pc # "clip_wait"
               /\ calls[c].raised # ModelLoadError) => embeddingPipeline
         /\ calls[c].clipBranch = "share" => calls[c].arrivedDuring # 0
         /\ (calls[c].clipBranch = "load" /\ calls[c].pc = "clip_wait") =>
               calls[c].awaiting = Len(clipLoads)

\* after a load that failed and rejected the search that waited for it, a
\* register has started a second load, which succeeded
C27_Witness ==
    /\ clipLoads = <<"rejected", "resolved">>
    /\ embeddingPipeline /\ ~isLoading
    /\ \E c \in Searches, d \in Registers :
         /\ calls[c].error = ModelLoadError
         /\ calls[d].clipBranch = "load"
         /\ "embed" \in StepsOf(d)

\* ---- reads against writes
\* C28 as claimed: every candidate a search has returned has an imageCount
\* of at least the number of its matchedImages
C28_CountAtLeastMatched ==
    \A c \in ResolvedSearches :
        \A k \in 1..Len(calls[c].result) :
            calls[c].result[k].imageCount >= Len(calls[c].result[k].matchedImages)

\* C28: the imageCount of every candidate a search returns is at least 1 and
\* at least the number of its matchedImages whose records are still in the
\* index when getUniqueAccounts reads it, hence at least the number of its
\* matchedImages when none of them was deleted or cleared since the window
\* was read
C28_CountAtLeastStoredMatched ==
    [][\A c \in CallIds :
          Scores(c) =>
             LET w == calls[c].candidates
                 res == calls'[c].result
             IN \A k \in 1..Len(res) :
                   LET pos == PositionsOf(w, res[k].accountHandle)
                       stored == {p \in pos : w[p].rec \in records}
                   IN /\ Len(res[k].matchedImages) = Cardinality(pos)
                      /\ res[k].imageCount >= 1
                      /\ res[k].imageCount >= Cardinality(stored)
                      /\ stored = pos => res[k].imageCount >= Len(res[k].matchedImages)]_vars

\* a search returned a candidate with two or more matched images and the
\* imageCount 1 after a clear had emptied the index between its two reads
C28_Witness ==
    \E c \in ResolvedSearches :
        /\ calls[2].op = "clear" /\ calls[2].outcome = "resolved"
        /\ records = {}
        /\ Len(calls[c].result) >= 1
        /\ Len(calls[c].result[1].matchedImages) >= 2
        /\ calls[c].result[1].imageCount = 1

\* the getStats calls that have returned
ResolvedStats == {c \in CallIds : calls[c].op = "stats" /\ calls[c].outcome = "resolved"}

\* C29 as claimed: in what getStats returns, uniqueAccounts is at most
\* totalImages, and totalImages is 0 exactly when uniqueAccounts is 0
C29_StatsConsistent ==
    \A c \in ResolvedStats :
        LET stats == calls[c].result[1] IN
        /\ stats.uniqueAccounts <= stats.totalImages
        /\ stats.totalImages = 0 <=> stats.uniqueAccounts = 0

\* C29: getStats returns as totalImages the number of records at its first
\* read and as uniqueAccounts the number of distinct handles at its second
\* read, which is at most the number of records then and 0 exactly when
\* there is none; when the index holds as many records at the second read as
\* at the first, uniqueAccounts is at most totalImages and totalImages is 0
\* exactly when uniqueAccounts is 0
C29_StatsOfTwoReads ==
    [][\A c \in CallIds :
          (calls[c].op = "stats" /\ calls[c].pc = "accounts_wait"
             /\ calls'[c].outcome = "resolved") =>
             LET stats == calls'[c].result[1] IN
             /\ stats.totalImages = calls[c].totalImages
             /\ stats.uniqueAccounts = Cardinality({r.accountHandle : r \in records})
             /\ stats.uniqueAccounts <= Cardinality(records)
             /\ stats.uniqueAccounts = 0 <=> records = {}
             /\ Cardinality(records) = calls[c].totalImages =>
                   /\ stats.uniqueAccounts <= stats.totalImages
                   /\ stats.totalImages = 0 <=> stats.uniqueAccounts = 0]_vars

\* getStats has returned more accounts than images after a register added
\* the first record between its two reads
C29_Witness ==
    \E c \in ResolvedStats :
        /\ calls[c].result[1].totalImages = 0
        /\ calls[c].result[1].uniqueAccounts = 1
        /\ calls[2].op = "register" /\ calls[2].outcome = "resolved"

\* ---- the modal
\* the search of the last run of the effect: the one for the latest inputs
LatestSearch == modal.searches[Len(modal.searches)]

\* C30 as claimed: once the search for the latest inputs has settled, the
\* modal shows what that search delivered, whatever the searches of earlier
\* runs deliver before or after: its candidates, its last progress report and
\* no error when it returned, its error when it was rejected
C30_LatestSearchDisplayed ==
    (modal.searches # <<>> /\ calls[LatestSearch].pc = "done") =>
        IF calls[LatestSearch].outcome = "resolved"
        THEN /\ modal.candidates = calls[LatestSearch].result
             /\ modal.progress = LastReport(LatestSearch)
             /\ modal.error = <<>>
        ELSE modal.error = <<calls[LatestSearch].error>>

====
